---------------------------- MODULE Spec2Model ----------------------------
(***************************************************************************)
(* A model of SeaBattle.py: Cell, Ship, DefenderMoveShip, Board, the two   *)
(* players and the SeaBattle game loop.                                    *)
(*                                                                         *)
(* Spec      one Board: Board.__init__/create(), then any sequence of      *)
(*           hit(y, x) and move_ships() calls.                             *)
(* SpecGame  SeaBattle.start(): the loop over Human.shoot and AI.shoot.    *)
(***************************************************************************)
EXTENDS Integers, Sequences, FiniteSets, TLC

VARIABLES
    ships,      \* [Players -> Seq(ship)]: Board._ships of each player's board
    pending,    \* the ships built by create() that are not placed yet
    pc,         \* the position in the program
    turn,       \* SeaBattle._turn: "none" | "human" | "ai"
    retried,    \* the running shoot() call is a recursive retry
    nmoves,     \* [Players -> Nat]: move_ships() calls run on each board
    outcome,    \* what the last shot printed or raised
    ret,        \* what the last hit() / _player_turn() returned
    winner      \* the winner announced by start()

vars == <<ships, pending, pc, turn, retried, nmoves, outcome, ret, winner>>

--------------------------------------------------------------------------
(* Program constants *)

\* Board.__init__(self, size=10)
Size == 10

\* Board._NUMS_SHIPS: (length, number of ships)
NUMS_SHIPS == << <<4, 1>>, <<3, 2>>, <<2, 3>>, <<1, 4>> >>

\* Ship.__init__(..., x=None, y=None): the coordinate of a ship not placed yet
None == -1

Players == {"human", "ai"}

--------------------------------------------------------------------------
(* Bounds of the model *)

\* the number of cells struck on one board
MaxStruck == 3

\* the number of move_ships() calls on one board
MaxMoves == 1

--------------------------------------------------------------------------
(* Cell and Ship *)

\* Ship.__init__: _is_move = True, one intact Cell per unit of length
Ship(length, tp) ==
    [length |-> length, tp |-> tp, x |-> None, y |-> None,
     is_move |-> TRUE, cells |-> [k \in 1..length |-> TRUE]]

\* Ship.set_start_coords
set_start_coords(ship, x, y) == [ship EXCEPT !.x = x, !.y = y]

\* Ship.get_start_coords
get_start_coords(ship) == <<ship.x, ship.y>>

\* Ship.get_finish_coords
get_finish_coords(ship) ==
    LET width  == IF ship.tp = 1 THEN ship.length ELSE 1
        height == IF ship.tp = 1 THEN 1 ELSE ship.length
    IN  <<ship.x + width, ship.y + height>>

\* Ship.hurt
hurt(ship) == IF ship.is_move THEN [ship EXCEPT !.is_move = FALSE] ELSE ship

\* Cell.hit on cell k of the ship: the cell is struck and the ship is hurt
cell_hit_no_hurt(ship, k) == [ship EXCEPT !.cells[k] = FALSE]

cell_hit(ship, k) == hurt([ship EXCEPT !.cells[k] = FALSE])

\* Cell.__bool__ of cell k of the ship
cell_bool_always(ship, k) == TRUE

cell_bool(ship, k) == ship.cells[k]

\* Ship.__bool__: any(self._cells)
ship_bool_all(ship) == \A k \in 1..Len(ship.cells) : cell_bool(ship, k)

ship_bool(ship) == \E k \in 1..Len(ship.cells) : cell_bool(ship, k)

\* Ship.is_collide
is_collide_half_open(self, ship) ==
    LET x2      == get_finish_coords(self)[1]
        y2      == get_finish_coords(self)[2]
        x1_ship == get_start_coords(ship)[1]
        y1_ship == get_start_coords(ship)[2]
        x2_ship == get_finish_coords(ship)[1]
        y2_ship == get_finish_coords(ship)[2]
    IN  self.x < x2_ship /\ x2 > x1_ship /\ self.y < y2_ship /\ y2 > y1_ship

is_collide(self, ship) ==
    LET x2      == get_finish_coords(self)[1]
        y2      == get_finish_coords(self)[2]
        x1_ship == get_start_coords(ship)[1]
        y1_ship == get_start_coords(ship)[2]
        x2_ship == get_finish_coords(ship)[1]
        y2_ship == get_finish_coords(ship)[2]
    IN  self.x <= x2_ship /\ x2 >= x1_ship /\ self.y <= y2_ship /\ y2 >= y1_ship

\* Ship.is_out_board
is_out_board_finish_at_size(ship, size) ==
    \/ \E v \in {ship.x, ship.y} : ~(0 <= v /\ v < size)
    \/ \E v \in {get_finish_coords(ship)[1], get_finish_coords(ship)[2]} :
           ~(0 <= v /\ v <= size)

is_out_board(ship, size) ==
    \E v \in {ship.x, ship.y, get_finish_coords(ship)[1], get_finish_coords(ship)[2]} :
        ~(0 <= v /\ v < size)

\* Ship.move: the result is [raised, ship]
ship_move_unchecked(ship, direction) ==
    [raised |-> FALSE,
     ship |-> IF ship.tp = 1 THEN [ship EXCEPT !.x = ship.x + direction]
                             ELSE [ship EXCEPT !.y = ship.y + direction]]

ship_move(ship, direction) ==
    IF ~ship.is_move
    THEN [raised |-> TRUE, ship |-> ship]
    ELSE [raised |-> FALSE,
          ship |-> IF ship.tp = 1 THEN [ship EXCEPT !.x = ship.x + direction]
                                  ELSE [ship EXCEPT !.y = ship.y + direction]]

--------------------------------------------------------------------------
(* Board *)

\* the ships list built by Board.create(): lengths in the order of _NUMS_SHIPS
RECURSIVE FleetLengthsOneEach(_)
FleetLengthsOneEach(i) ==
    IF i > Len(NUMS_SHIPS) THEN <<>>
    ELSE <<NUMS_SHIPS[i][1]>> \o FleetLengthsOneEach(i + 1)

RECURSIVE FleetLengthsFrom(_)
FleetLengthsFrom(i) ==
    IF i > Len(NUMS_SHIPS) THEN <<>>
    ELSE [k \in 1..NUMS_SHIPS[i][2] |-> NUMS_SHIPS[i][1]] \o FleetLengthsFrom(i + 1)

FleetLengths == FleetLengthsFrom(1)

\* Board._check_location_ship for a ship that is not in the fleet (placement)
check_location_new_cells_only(fleet, ship) ==
    \/ is_out_board(ship, Size)
    \/ \E j \in 1..Len(fleet) : is_collide_half_open(ship, fleet[j])

check_location_new(fleet, ship) ==
    \/ is_out_board(ship, Size)
    \/ \E j \in 1..Len(fleet) : is_collide(ship, fleet[j])

\* Board._check_location_ship for ship i of the fleet: other != ship is identity
check_location_bounds_only(fleet, i) == is_out_board(fleet[i], Size)

\* (`now` is the list self._ships as it stands at the call)
check_location_ship(fleet, i) ==
    \E now \in {fleet} :
        \/ is_out_board(now[i], Size)
        \/ \E j \in 1..Len(now) : j # i /\ is_collide(now[i], now[j])


\* the cells ship i covers in Board.get_board: for y in range(y1, y2): for x in
\* range(x1, x2)
covers(ship, y, x) ==
    /\ ship.y <= y /\ y < get_finish_coords(ship)[2]
    /\ ship.x <= x /\ x < get_finish_coords(ship)[1]

\* the index i of Board.get_board's loop when it reaches (y, x), 1-based
cell_index_row_only(ship, y, x) == (x - ship.x) + 1

cell_index(ship, y, x) ==
    (y - ship.y) * (get_finish_coords(ship)[1] - ship.x) + (x - ship.x) + 1

\* Board.get_board[y][x]: 0 for the background '*', else the index of the
\* ship whose Cell is there (a later ship of the fleet overwrites an earlier one)
get_board(fleet, y, x) ==
    LET on == {i \in 1..Len(fleet) : covers(fleet[i], y, x)}
    IN  IF on = {} THEN 0 ELSE CHOOSE i \in on : \A j \in on : j <= i

\* Board.__bool__: any(self._ships)
board_bool(fleet) == \E i \in 1..Len(fleet) : ship_bool(fleet[i])

\* Board.hit, the lambda of its first line: p is no index of the board
bad_index_upper_only(p, size) == ~(p < size)

bad_index(p, size) == ~(0 <= p /\ p < size)

\* Board.hit(y, x): [fleet, outcome, ret]; ret is "None" when hit raised
hit_strike_before_test(fleet, y, x) ==
    IF \E p \in {x, y} : bad_index(p, Size)
    THEN [fleet |-> fleet, outcome |-> "IndexBoardError", ret |-> "None"]
    ELSE LET target == get_board(fleet, y, x) IN
         IF target # 0
         THEN LET k      == cell_index(fleet[target], y, x)
                  struck == cell_hit(fleet[target], k)
              IN  [fleet   |-> [fleet EXCEPT ![target] = struck],
                   outcome |-> "ShootError",
                   ret     |-> "None"]
         ELSE [fleet |-> fleet, outcome |-> "miss", ret |-> "False"]

hit(fleet, y, x) ==
    IF \E p \in {x, y} : bad_index(p, Size)
    THEN [fleet |-> fleet, outcome |-> "IndexBoardError", ret |-> "None"]
    ELSE LET target == get_board(fleet, y, x) IN
         IF target # 0
         THEN LET k == cell_index(fleet[target], y, x) IN
              IF ~cell_bool(fleet[target], k)
              THEN [fleet |-> fleet, outcome |-> "ShootError", ret |-> "None"]
              ELSE LET struck == cell_hit(fleet[target], k) IN
                   [fleet   |-> [fleet EXCEPT ![target] = struck],
                    outcome |-> IF ship_bool(struck) THEN "wounded" ELSE "sunk",
                    ret     |-> "True"]
         ELSE [fleet |-> fleet, outcome |-> "miss", ret |-> "False"]

\* Board._move_ship inside `with DefenderMoveShip(s)`: [raised, fleet]; when
\* SeaBattleError is raised __exit__ restores the start coordinates
move_ship_rebuilt(fleet, i, direction) ==
    LET m     == ship_move(fleet[i], direction)
        moved == [fleet EXCEPT ![i] = m.ship]
        saved == get_start_coords(fleet[i])
    IN  IF m.raised \/ check_location_ship(moved, i)
        THEN [raised |-> TRUE,
              fleet  |-> [moved EXCEPT ![i] =
                             set_start_coords(Ship(moved[i].length, moved[i].tp),
                                              saved[1], saved[2])]]
        ELSE [raised |-> FALSE, fleet |-> moved]

move_ship(fleet, i, direction) ==
    LET m     == ship_move(fleet[i], direction)
        moved == [fleet EXCEPT ![i] = m.ship]
        saved == get_start_coords(fleet[i])
    IN  IF m.raised \/ check_location_ship(moved, i)
        THEN [raised |-> TRUE,
              fleet  |-> [moved EXCEPT ![i] = set_start_coords(moved[i], saved[1], saved[2])]]
        ELSE [raised |-> FALSE, fleet |-> moved]

\* the body of the loop of Board.move_ships for ship i and the direction drawn
move_one_single_try(fleet, i, direction) == move_ship(fleet, i, direction).fleet

move_one(fleet, i, direction) ==
    LET first == move_ship(fleet, i, direction)
    IN  IF first.raised THEN move_ship(first.fleet, i, -direction).fleet
        ELSE first.fleet

\* the loop of Board.move_ships from ship i on: `fleets` holds the fleets the
\* loop can have reached, one for every way choice((1, -1)) fell so far
RECURSIVE move_ships_from(_, _, _)
move_ships_from(fleets, i, n) ==
    IF i > n THEN fleets
    ELSE move_ships_from({move_one(fleet, i, direction) :
                              fleet \in fleets, direction \in {1, -1}}, i + 1, n)

\* Board.move_ships
move_ships(fleet) == move_ships_from({fleet}, 1, Len(fleet))

--------------------------------------------------------------------------
(* The random draws and the calls the model explores *)

\* randint(1, 2) for the ten ships of create(): the orientations explored
TpSamples ==
    { <<1, 1, 1, 1, 1, 1, 1, 1, 1, 1>>,
      <<1, 1, 1, 2, 2, 2, 1, 1, 1, 2>>,
      <<2, 1, 1, 1, 2, 1, 1, 2, 1, 1>> }

\* (randint(0, size - 1), randint(0, size - 1)) in _placement_ship: the start
\* coordinates <<x, y>> explored for the i-th ship of the fleet
PlacementSamples ==
    << {<<0, 1>>, <<0, 0>>}, {<<1, 4>>, <<2, 0>>}, {<<1, 7>>},
       {<<6, 1>>, <<5, 0>>, <<6, 0>>}, {<<6, 4>>, <<5, 3>>, <<6, 2>>},
       {<<6, 7>>, <<7, 0>>, <<0, 5>>},
       {<<5, 6>>, <<3, 5>>}, {<<5, 8>>, <<8, 2>>}, {<<7, 3>>}, {<<7, 6>>, <<0, 8>>} >>

\* the arguments of Board.hit explored: rows and columns in range (with the
\* last ones), negative, and size
ShotYs == {-1, 0, 1, 4, 6, Size - 1, Size}

ShotXs == {-1, 0, 1, 5, Size - 1, Size}

\* the number of struck cells of a fleet
RECURSIVE StruckFrom(_, _)
StruckFrom(fleet, i) ==
    IF i > Len(fleet) THEN 0
    ELSE Cardinality({k \in 1..Len(fleet[i].cells) : ~fleet[i].cells[k]})
         + StruckFrom(fleet, i + 1)

Struck(fleet) == StruckFrom(fleet, 1)

--------------------------------------------------------------------------
(* Spec: one Board, from Board.__init__ on *)

\* Board.__init__ before create(): the human's board, the first one built
Init ==
    /\ ships = [p \in Players |-> <<>>]
    /\ pending = <<>>
    /\ pc = "new"
    /\ turn = "none"
    /\ retried = FALSE
    /\ nmoves = [p \in Players |-> 0]
    /\ outcome = "none"
    /\ ret = "None"
    /\ winner = "none"

\* Board.create, the list comprehension: ten ships, each with a drawn orientation
Create ==
    /\ pc = "new"
    /\ \E tps \in TpSamples :
         pending' = [i \in 1..Len(FleetLengths) |-> Ship(FleetLengths[i], tps[i])]
    /\ pc' = "placing"
    /\ UNCHANGED <<ships, turn, retried, nmoves, outcome, ret, winner>>

\* one pass of the loop of Board._placement_ship for the next ship of create()
PlacementShip ==
    /\ pc = "placing"
    /\ \E c \in PlacementSamples[Len(ships["human"]) + 1] :
         LET ship == set_start_coords(Head(pending), c[1], c[2]) IN
         IF ~check_location_new(ships["human"], ship)
         THEN /\ ships' = [ships EXCEPT !["human"] = Append(@, ship)]
              /\ pending' = Tail(pending)
              /\ pc' = IF Tail(pending) = <<>> THEN "ready" ELSE "placing"
         ELSE /\ pending' = <<ship>> \o Tail(pending)
              /\ UNCHANGED <<ships, pc>>
    /\ UNCHANGED <<turn, retried, nmoves, outcome, ret, winner>>

\* a call of Board.hit(y, x) on the board
Hit ==
    /\ pc = "ready"
    /\ \E y \in ShotYs, x \in ShotXs :
         LET r == hit(ships["human"], y, x) IN
         /\ Struck(r.fleet) <= MaxStruck
         /\ ships' = [ships EXCEPT !["human"] = r.fleet]
         /\ outcome' = r.outcome
         /\ ret' = r.ret
    /\ UNCHANGED <<pending, pc, turn, retried, nmoves, winner>>

\* a call of Board.move_ships() on the board
MoveShips ==
    /\ pc = "ready"
    /\ nmoves["human"] < MaxMoves
    /\ \E fleet \in move_ships(ships["human"]) :
         ships' = [ships EXCEPT !["human"] = fleet]
    /\ nmoves' = [nmoves EXCEPT !["human"] = @ + 1]
    /\ outcome' = "none"
    /\ ret' = "None"
    /\ UNCHANGED <<pending, pc, turn, retried, winner>>

Next == Create \/ PlacementShip \/ Hit \/ MoveShips

Spec == Init /\ [][Next]_vars

--------------------------------------------------------------------------
(* Players and the game *)

\* string.ascii_uppercase
ascii_uppercase ==
    <<"A", "B", "C", "D", "E", "F", "G", "H", "I", "J", "K", "L", "M",
      "N", "O", "P", "Q", "R", "S", "T", "U", "V", "W", "X", "Y", "Z">>

ascii_lowercase ==
    <<"a", "b", "c", "d", "e", "f", "g", "h", "i", "j", "k", "l", "m",
      "n", "o", "p", "q", "r", "s", "t", "u", "v", "w", "x", "y", "z">>

digits == <<"0", "1", "2", "3", "4", "5", "6", "7", "8", "9">>

\* the position of character c in the sequence s, counted from 0; -1 if absent
index(s, c) ==
    IF \E i \in 1..Len(s) : s[i] = c
    THEN (CHOOSE i \in 1..Len(s) : s[i] = c) - 1
    ELSE -1

\* str.upper, character by character
upper(text) ==
    [i \in 1..Len(text) |->
        IF index(ascii_lowercase, text[i]) >= 0
        THEN ascii_uppercase[index(ascii_lowercase, text[i]) + 1]
        ELSE text[i]]

\* Human.shoot, the try block up to the call of hit: [error, row, col].
\* `y, x = ...` raises ValueError unless the text has two characters
parse_shot(text) ==
    LET up == upper(text) IN
    IF Len(up) # 2 THEN [error |-> TRUE, row |-> 0, col |-> 0]
    ELSE IF index(ascii_uppercase, up[1]) < 0 \/ index(digits, up[2]) < 0
         THEN [error |-> TRUE, row |-> 0, col |-> 0]
         ELSE [error |-> FALSE,
               row   |-> index(ascii_uppercase, up[1]),
               col   |-> index(digits, up[2]) - 1]

\* what shoot() hands back to _player_turn: the result of hit when the first
\* attempt resolved the shot, None when the shot was resolved by a recursive
\* self.shoot(player), whose result is dropped
shoot_result(was_retried, hit_ret) == IF was_retried THEN "None" ELSE hit_ret

\* SeaBattle.__bool__: all((self._human, self._ai)), Player.__bool__ being
\* bool(self.board)
game_bool_any(boards) == board_bool(boards["human"]) \/ board_bool(boards["ai"])

game_bool(boards) == board_bool(boards["human"]) /\ board_bool(boards["ai"])

\* SeaBattle._change_turn: [turn, moves]; moves says that _move_ships() runs
change_turn_moves_first(t) ==
    IF t = "human" THEN [turn |-> "ai", moves |-> TRUE]
    ELSE [turn |-> "human", moves |-> FALSE]

change_turn(t) ==
    IF t = "human" THEN [turn |-> "ai", moves |-> FALSE]
    ELSE [turn |-> "human", moves |-> TRUE]

\* SeaBattle.start after the loop: the winner announced
announce_human_first(boards) == IF ~board_bool(boards["human"]) THEN "human" ELSE "ai"

announce(boards) == IF ~board_bool(boards["ai"]) THEN "human" ELSE "ai"

\* SeaBattle._move_ships: the boards it can leave
game_move_ships(boards) ==
    {[ai |-> a, human |-> h] : a \in move_ships(boards["ai"]),
                               h \in move_ships(boards["human"])}

\* the lines the human types at input() that the model explores
HumanInputs ==
    { <<"F", "4">>, <<"f", "5">>, <<"A", "1">>, <<"b", "1">>, <<"D", "6">>,
      <<"A", "2">>, <<"A", "0">>, <<"K", "1">>, <<"A", "1", "0">>,
      <<"1", "A">>, <<"A">>, <<"*", "1">> }

\* the pairs (randint(0, 9), randint(0, 9)) of AI.shoot that the model explores
AiSamplesUpToSize ==
    { <<0, 5>>, <<1, 5>>, <<3, 7>>, <<3, 8>>, <<0, 0>>, <<9, 9>>, <<Size, 0>> }

AiSamples == { <<0, 5>>, <<1, 5>>, <<3, 7>>, <<3, 8>>, <<0, 0>>, <<9, 9>> }

\* a fleet as create() leaves it: orientations tps, start coordinates starts
Fleet(tps, starts) ==
    [i \in 1..Len(FleetLengths) |->
        set_start_coords(Ship(FleetLengths[i], tps[i]), starts[i][1], starts[i][2])]

\* two fleets create() can place (both are reached under Spec)
Layout2 ==
    Fleet(<<2, 1, 1, 1, 2, 1, 1, 2, 1, 1>>,
          << <<0, 0>>, <<2, 0>>, <<1, 7>>, <<6, 0>>, <<5, 3>>, <<0, 5>>,
             <<3, 5>>, <<5, 8>>, <<7, 3>>, <<7, 6>> >>)

Layout ==
    Fleet(<<1, 1, 1, 2, 2, 2, 1, 1, 1, 2>>,
          << <<0, 1>>, <<1, 4>>, <<1, 7>>, <<5, 0>>, <<5, 3>>, <<7, 0>>,
             <<5, 6>>, <<5, 8>>, <<7, 3>>, <<7, 6>> >>)

\* the fleet after every cell of every ship outside `keep` was struck
Worn(fleet, keep) ==
    [i \in 1..Len(fleet) |->
        IF i \in keep THEN fleet[i]
        ELSE [fleet[i] EXCEPT !.is_move = FALSE,
                              !.cells = [k \in 1..fleet[i].length |-> FALSE]]]

\* SeaBattle.__init__ has built both players
InitFresh ==
    /\ ships = [human |-> Layout, ai |-> Layout2]
    /\ pc = "start"
    /\ turn = "none"
    /\ outcome = "none"
    /\ ret = "None"

\* a game in progress, at the head of the loop: the human has sunk all of the
\* AI's ships but one and missed, then the AI has sunk all of the human's ships
\* but two; no turn has gone back to the human yet, so no ship has moved
InitLate ==
    /\ ships = [human |-> Worn(Layout, {4, 9}), ai |-> Worn(Layout2, {7})]
    /\ pc = "loop"
    /\ turn = "ai"
    /\ outcome = "sunk"
    /\ ret = "True"

InitGame ==
    /\ InitFresh \/ InitLate
    /\ pending = <<>>
    /\ retried = FALSE
    /\ nmoves = [p \in Players |-> 0]
    /\ winner = "none"

\* SeaBattle.start: self._turn = self._human
Start ==
    /\ pc = "start"
    /\ turn' = "human"
    /\ pc' = "loop"
    /\ UNCHANGED <<ships, pending, retried, nmoves, outcome, ret, winner>>

\* `while self:` and, when it fails, the announcement after the loop
LoopTest ==
    /\ pc = "loop"
    /\ IF game_bool(ships)
       THEN pc' = "shoot" /\ winner' = winner
       ELSE pc' = "done" /\ winner' = announce(ships)
    /\ UNCHANGED <<ships, pending, turn, retried, nmoves, outcome, ret>>

\* the end of a pass of the loop once shoot() has resolved the shot on the
\* board of `other` with result r of hit:
\* `if not self._player_turn(self._turn): self._change_turn()`
Resolve(other, r) ==
    LET res   == shoot_result(retried, r.ret)
        after == [ships EXCEPT ![other] = r.fleet]
        next  == change_turn(turn)
    IN  /\ outcome' = r.outcome
        /\ ret' = res
        /\ retried' = FALSE
        /\ pc' = "loop"
        /\ IF res = "True"
           THEN ships' = after /\ UNCHANGED <<turn, nmoves>>
           ELSE /\ turn' = next.turn
                /\ IF next.moves
                   THEN /\ \A p \in Players : nmoves[p] < MaxMoves
                        /\ ships' \in game_move_ships(after)
                        /\ nmoves' = [p \in Players |-> nmoves[p] + 1]
                   ELSE ships' = after /\ UNCHANGED nmoves
        /\ UNCHANGED <<pending, winner>>

\* an exception caught inside shoot(): it calls itself again
Retry(error) ==
    /\ outcome' = error
    /\ retried' = TRUE
    /\ UNCHANGED <<ships, pending, pc, turn, nmoves, ret, winner>>

\* one line read by Human.shoot, the human's turn
HumanShoot ==
    /\ pc = "shoot" /\ turn = "human"
    /\ \E text \in HumanInputs :
         LET parsed == parse_shot(text)
             r      == hit(ships["ai"], parsed.row, parsed.col)
         IN  IF parsed.error THEN Retry("ValueError")
             ELSE IF r.outcome \in {"IndexBoardError", "ShootError"}
                  THEN Retry(r.outcome)
                  ELSE Resolve("ai", r)

\* one draw of AI.shoot, the AI's turn; only ShootError is caught
AIShoot ==
    /\ pc = "shoot" /\ turn = "ai"
    /\ \E c \in AiSamples :
         LET r == hit(ships["human"], c[1], c[2])
         IN  IF r.outcome = "ShootError" THEN Retry(r.outcome)
             ELSE IF r.outcome = "IndexBoardError"
                  THEN /\ pc' = "raised"
                       /\ outcome' = r.outcome
                       /\ UNCHANGED <<ships, pending, turn, retried, nmoves, ret, winner>>
                  ELSE Resolve("human", r)

NextGame == Start \/ LoopTest \/ HumanShoot \/ AIShoot

SpecGame == InitGame /\ [][NextGame]_vars

\* the game in progress of InitLate
InitLateGame ==
    /\ InitLate
    /\ pending = <<>>
    /\ retried = FALSE
    /\ nmoves = [p \in Players |-> 0]
    /\ winner = "none"

NextLoop == LoopTest \/ HumanShoot \/ AIShoot

\* the end of a game with fair draws in AI.shoot: randint gives every pair with
\* a positive probability, so a draw that resolves the shot is not put off for
\* ever while one exists (the retries on ShootError leave the state as it is)
SpecLateFair == InitLateGame /\ [][NextLoop]_vars /\ WF_vars(AIShoot)

--------------------------------------------------------------------------
(* SpecShips: two Ship objects and their geometry methods *)

\* the arguments of Ship(length, tp, x, y) explored for the first ship: every
\* length of the fleet, both orientations, starts from one below 0 to size
ShipLengths == {NUMS_SHIPS[i][1] : i \in 1..Len(NUMS_SHIPS)}

StartCoords == (-1)..Size

\* the same for the second ship
OtherLengths == {2, 3}

OtherCoords == {0, 2, 5, Size - 1}

\* the sizes is_out_board is asked about
BoardSizes == {1, 5, Size}

\* Ship.__init__(length, tp, x, y) for two ships
InitShips ==
    /\ \E length \in ShipLengths, tp \in {1, 2}, x \in StartCoords, y \in StartCoords :
       \E length2 \in OtherLengths, tp2 \in {1, 2}, x2 \in OtherCoords, y2 \in OtherCoords :
          ships = [human |-> <<set_start_coords(Ship(length, tp), x, y),
                               set_start_coords(Ship(length2, tp2), x2, y2)>>,
                   ai    |-> <<>>]
    /\ pending = <<>>
    /\ pc = "ships"
    /\ turn = "none"
    /\ retried = FALSE
    /\ nmoves = [p \in Players |-> 0]
    /\ outcome = "none"
    /\ ret = "None"
    /\ winner = "none"

\* a call of set_start_coords on the second ship
SetStartCoords ==
    /\ pc = "ships"
    /\ \E x \in OtherCoords, y \in OtherCoords :
         ships' = [ships EXCEPT !["human"][2] = set_start_coords(@, x, y)]
    /\ outcome' = "none"
    /\ ret' = "None"
    /\ UNCHANGED <<pending, pc, turn, retried, nmoves, winner>>

\* a call of is_collide on the first ship with the second
IsCollide ==
    /\ pc = "ships"
    /\ outcome' = "is_collide"
    /\ ret' = IF is_collide(ships["human"][1], ships["human"][2]) THEN "True" ELSE "False"
    /\ UNCHANGED <<ships, pending, pc, turn, retried, nmoves, winner>>

\* a call of is_out_board(size) on the first ship
IsOutBoard ==
    /\ pc = "ships"
    /\ \E size \in BoardSizes :
         /\ outcome' = "is_out_board"
         /\ ret' = IF is_out_board(ships["human"][1], size) THEN "True" ELSE "False"
    /\ UNCHANGED <<ships, pending, pc, turn, retried, nmoves, winner>>

NextShips == SetStartCoords \/ IsCollide \/ IsOutBoard

SpecShips == InitShips /\ [][NextShips]_vars

--------------------------------------------------------------------------
(* The vocabulary of the claims *)

\* the grid cells <<x, y>> a ship occupies: `length` cells from its start
\* along its long axis
Occupied(ship) ==
    IF ship.tp = 1 THEN {<<ship.x + k, ship.y>> : k \in 0..(ship.length - 1)}
    ELSE {<<ship.x, ship.y + k>> : k \in 0..(ship.length - 1)}

\* the offset of (y, x) from the ship's start along its long axis, counted from 1
Offset(ship, y, x) == IF ship.tp = 1 THEN x - ship.x + 1 ELSE y - ship.y + 1

\* the ships of the fleet occupying column x of row y
Occupants(fleet, y, x) == {i \in 1..Len(fleet) : <<x, y>> \in Occupied(fleet[i])}

\* the coordinates <<y, x>> of the struck cells of a fleet
StruckCoords(fleet) ==
    UNION {{IF fleet[i].tp = 1 THEN <<fleet[i].y, fleet[i].x + k - 1>>
                               ELSE <<fleet[i].y + k - 1, fleet[i].x>> :
                k \in {k \in 1..fleet[i].length : ~fleet[i].cells[k]}} :
               i \in 1..Len(fleet)}

InRange == 0..(Size - 1)

\* arguments of hit around the grid: two below 0 to two beyond size - 1
Around == (-2)..(Size + 1)

\* the numbers of ships of each length in a sequence of ships
CountLength(fleet, length) ==
    Cardinality({i \in 1..Len(fleet) : fleet[i].length = length})

--------------------------------------------------------------------------
(* Claims about the Board, checked under Spec *)

\* C1: in every reachable state no two distinct ships of the board occupy a
\* common grid cell, and every ship's start and finish coordinates lie within
\* [0, size).
C1_NoOverlapInBounds ==
    \A p \in Players : \A i \in 1..Len(ships[p]) :
        /\ \A v \in {ships[p][i].x, ships[p][i].y,
                     get_finish_coords(ships[p][i])[1],
                     get_finish_coords(ships[p][i])[2]} : 0 <= v /\ v < Size
        /\ \A j \in 1..Len(ships[p]) :
               j # i => Occupied(ships[p][i]) \cap Occupied(ships[p][j]) = {}

\* a created board on which a shot has struck and move_ships() has moved a ship
C1_Witness ==
    /\ pc = "ready" /\ nmoves["human"] >= 1 /\ Struck(ships["human"]) >= 1
    /\ ships["human"][2].x = 0

\* C2: once a cell of a ship is struck, no later step (move_ships() or hit())
\* changes that ship's start coordinate.
C2_StruckShipStays ==
    [][\A p \in Players : \A i \in 1..Len(ships[p]) :
          (\E k \in 1..ships[p][i].length : ~ships[p][i].cells[k])
              => get_start_coords(ships'[p][i]) = get_start_coords(ships[p][i])]_vars

\* move_ships() has just run: ship 3 has moved and ship 2, struck, has not
C2_Witness ==
    /\ pc = "ready" /\ outcome = "none" /\ nmoves["human"] >= 1
    /\ ~ships["human"][2].cells[1] /\ ships["human"][2].x = 1
    /\ ships["human"][3].x = 0

\* C3: hit on a coordinate whose ship cell is struck fails with ShootError,
\* in every reachable state, and a struck coordinate stays struck.
C3_StruckCellShootError ==
    /\ [](\A p \in Players : \A c \in StruckCoords(ships[p]) :
             /\ hit(ships[p], c[1], c[2]).outcome = "ShootError"
             /\ hit(ships[p], c[1], c[2]).ret = "None")
    /\ [][\A p \in Players : StruckCoords(ships[p]) \subseteq StruckCoords(ships'[p])]_vars

\* a shot at a struck cell has failed after a move_ships() and another hit
C3_Witness ==
    /\ outcome = "ShootError" /\ nmoves["human"] >= 1 /\ Struck(ships["human"]) >= 2

\* C4: hit with row or col outside [0, size) fails with IndexBoardError and
\* changes nothing of the board.
C4_OutOfRangeIndexBoardError ==
    \A p \in Players : \A y \in Around, x \in Around :
        (y \notin InRange \/ x \notin InRange)
            => hit(ships[p], y, x) =
                   [fleet |-> ships[p], outcome |-> "IndexBoardError", ret |-> "None"]

\* an out-of-range shot has failed on a board with struck and moved ships
C4_Witness ==
    /\ outcome = "IndexBoardError" /\ nmoves["human"] >= 1 /\ Struck(ships["human"]) >= 1

\* C5: for (row, col) in range, hit returns true exactly when a ship occupies
\* the coordinate with an intact cell: then that cell alone (the k-th of the ship,
\* k the offset along its long axis) becomes struck and no position changes; it
\* returns false exactly when no ship occupies the coordinate, and nothing changes.
C5_HitResult ==
    \A p \in Players : \A y \in InRange, x \in InRange :
        LET fleet == ships[p]
            r     == hit(fleet, y, x)
            on    == Occupants(fleet, y, x)
        IN  /\ (r.ret = "True") <=> (\E i \in on : fleet[i].cells[Offset(fleet[i], y, x)])
            /\ (r.ret = "False") <=> (on = {})
            /\ r.ret = "False" => r.fleet = fleet
            /\ r.ret = "True" =>
                 \E i \in on :
                     /\ \A j \in 1..Len(fleet) : j # i => r.fleet[j] = fleet[j]
                     /\ get_start_coords(r.fleet[i]) = get_start_coords(fleet[i])
                     /\ r.fleet[i].cells =
                            [fleet[i].cells EXCEPT ![Offset(fleet[i], y, x)] = FALSE]

\* a shot has struck the second cell of the vertical ship 4, its first intact
C5_Witness ==
    /\ ret = "True" /\ ships["human"][4].tp = 2
    /\ ships["human"][4].cells = <<TRUE, FALSE>>

\* C6: a successful hit reports "sunk" exactly when the struck cell was the last
\* intact cell of its ship, and "wounded" exactly when an intact cell is left.
C6_SunkOrWounded ==
    \A p \in Players : \A y \in InRange, x \in InRange :
        LET fleet == ships[p]
            r     == hit(fleet, y, x)
        IN  r.ret = "True" =>
              \A i \in Occupants(fleet, y, x) :
                  LET others == {k \in 1..fleet[i].length :
                                     k # Offset(fleet[i], y, x) /\ fleet[i].cells[k]}
                  IN  /\ (r.outcome = "sunk") <=> (others = {})
                      /\ (r.outcome = "wounded") <=> (others # {})

\* the second hit on the two-cell ship 4 has reported sunk
C6_Witness ==
    /\ outcome = "sunk" /\ ships["human"][4].cells = <<FALSE, FALSE>>

\* C7: from create() on the fleet is one ship of length 4, two of 3, three of 2
\* and four of 1, ten in all; no step adds, removes or replaces a ship of the
\* board or changes a ship's length or orientation.
C7_FleetOfTen ==
    /\ [](pc # "new" =>
            LET all == ships["human"] \o pending IN
            /\ Len(all) = 10
            /\ CountLength(all, 4) = 1 /\ CountLength(all, 3) = 2
            /\ CountLength(all, 2) = 3 /\ CountLength(all, 1) = 4)
    /\ [][pc = "ready" =>
            /\ Len(ships'["human"]) = Len(ships["human"])
            /\ \A i \in 1..Len(ships["human"]) :
                   /\ ships'["human"][i].length = ships["human"][i].length
                   /\ ships'["human"][i].tp = ships["human"][i].tp
                   /\ Len(ships'["human"][i].cells) = ships["human"][i].length]_vars

\* create() has placed the fleet, a shot has struck and move_ships() has run
C7_Witness ==
    /\ pc = "ready" /\ Len(ships["human"]) = 10
    /\ nmoves["human"] >= 1 /\ Struck(ships["human"]) >= 1

\* C8: in every partial placement create() can reach, at least one start
\* coordinate of the grid is in bounds and free of collisions for the next ship.
C8_PlacementAlwaysPossible ==
    pc = "placing" =>
        \E x \in InRange, y \in InRange :
            ~check_location_new(ships["human"], set_start_coords(Head(pending), x, y))

--------------------------------------------------------------------------
(* Claims about the game, checked under SpecGame *)

\* a board with at least one ship with an intact cell
Alive(fleet) == \E i \in 1..Len(fleet) : \E k \in 1..fleet[i].length : fleet[i].cells[k]

\* C9: the loop runs while both boards have a ship with an intact cell and
\* stops right after the first shot that leaves a board with none; at the exit
\* exactly one board is dead and the winner announced owns the other board.
C9_GameEnd ==
    /\ [](/\ pc = "shoot" => (Alive(ships["human"]) /\ Alive(ships["ai"]))
          /\ pc = "done" =>
               /\ Alive(ships["human"]) # Alive(ships["ai"])
               /\ ~Alive(ships["human"]) => winner = "ai"
               /\ ~Alive(ships["ai"]) => winner = "human"
          /\ pc # "done" => winner = "none")
    /\ [][/\ (pc = "loop" /\ Alive(ships["human"]) /\ Alive(ships["ai"])) => pc' = "shoot"
          /\ (pc = "loop" /\ ~(Alive(ships["human"]) /\ Alive(ships["ai"]))) => pc' = "done"
          /\ pc = "done" => FALSE]_vars

\* the AI's shot has struck the last cell of the human's board: the loop is
\* left and the AI is announced
C9_Witness ==
    /\ pc = "done" /\ winner = "ai"
    /\ ~Alive(ships["human"]) /\ Alive(ships["ai"])

\* C10: move_ships() runs, once on each board, exactly in the steps in which
\* the turn passes from the AI to the human; not when it passes from the human
\* to the AI, not while a player keeps the turn, not at the start.
C10_MovesOnReturnToHuman ==
    [][/\ (turn = "ai" /\ turn' = "human") <=> (nmoves' # nmoves)
       /\ nmoves' # nmoves => \A p \in Players : nmoves'[p] = nmoves[p] + 1]_vars

\* from the start the human missed, the AI missed, and both boards have moved
C10_Witness ==
    /\ turn = "human" /\ \A p \in Players : nmoves[p] = 1
    /\ ships["human"][2].x = 0 /\ ships["ai"][4].x = 7
    /\ Struck(ships["human"]) = 0 /\ Struck(ships["ai"]) = 0

--------------------------------------------------------------------------
(* Claims C11 to C20 *)

\* the ship one step further along its long axis (direction 1 or -1)
Stepped(ship, direction) ==
    IF ship.tp = 1 THEN [ship EXCEPT !.x = ship.x + direction]
    ELSE [ship EXCEPT !.y = ship.y + direction]

\* the fleet as the loop of move_ships sees it when it comes to ship i: the
\* ships before i where the call leaves them, the others where they were
MidFleet(old, new, i) == [j \in 1..Len(old) |-> IF j < i THEN new[j] ELSE old[j]]

\* ship i of the fleet is undamaged, and one step in the direction puts it in
\* bounds and clear of the other ships as they stand
StepAllowed(fleet, i, direction) ==
    /\ \A k \in 1..fleet[i].length : fleet[i].cells[k]
    /\ ~check_location_new([j \in 1..(Len(fleet) - 1) |->
                                IF j < i THEN fleet[j] ELSE fleet[j + 1]],
                           Stepped(fleet[i], direction))

\* C11: move_ships() takes the ships in fleet order; a ship ends one step along
\* its long axis only if it is undamaged and that step is in bounds and free
\* of collisions against the other ships' current positions, it ends where it
\* was only if it is damaged or both steps are invalid, and it ends nowhere
\* else (never two cells away, never along its short axis).
C11_MoveShipsStep ==
    [][nmoves' # nmoves =>
          \A p \in Players : nmoves'[p] # nmoves[p] =>
              \A i \in 1..Len(ships[p]) :
                  LET mid == MidFleet(ships[p], ships'[p], i) IN
                  /\ \/ ships'[p][i] = ships[p][i]
                     \/ \E d \in {1, -1} : ships'[p][i] = Stepped(ships[p][i], d)
                  /\ ships'[p][i] = ships[p][i]
                        => ~StepAllowed(mid, i, 1) /\ ~StepAllowed(mid, i, -1)
                  /\ \A d \in {1, -1} :
                        ships'[p][i] = Stepped(ships[p][i], d) => StepAllowed(mid, i, d)]_vars

\* move_ships() has run on a fleet whose undamaged ships 6 and 7 block each
\* other and stay, while ship 4 has moved one step
C11_Witness ==
    /\ pc = "ready" /\ outcome = "none" /\ nmoves["human"] >= 1
    /\ ships["human"][4].x = 7
    /\ get_start_coords(ships["human"][6]) = <<0, 5>> /\ ships["human"][6].is_move
    /\ get_start_coords(ships["human"][7]) = <<3, 5>> /\ ships["human"][7].is_move

\* C12: in every reachable state a ship's movement flag is true exactly when
\* none of its cells is struck; no step sets a cleared flag again, and no step
\* (hit, move_ships with its rollbacks) makes a struck cell intact again.
C12_FlagIffIntact ==
    /\ [](\A p \in Players : \A i \in 1..Len(ships[p]) :
             ships[p][i].is_move <=> (\A k \in 1..ships[p][i].length : ships[p][i].cells[k]))
    /\ [](\A i \in 1..Len(pending) :
             pending[i].is_move /\ (\A k \in 1..pending[i].length : pending[i].cells[k]))
    /\ [][\A p \in Players : \A i \in 1..Len(ships[p]) :
             /\ ~ships[p][i].is_move => ~ships'[p][i].is_move
             /\ \A k \in 1..ships[p][i].length :
                    ~ships[p][i].cells[k] => ~ships'[p][i].cells[k]]_vars

\* two cells of ship 1 were struck, then move_ships() ran and failed to move it
C12_Witness ==
    /\ pc = "ready" /\ outcome = "none" /\ nmoves["human"] >= 1
    /\ ships["human"][1].cells = <<FALSE, FALSE, TRUE, TRUE>>
    /\ ~ships["human"][1].is_move
    /\ ships["human"][3].x = 0

\* the characters of the lines tried against Human.shoot
TypedChars == {"A", "b", "J", "K", "0", "1", "9", "*"}

\* every line of one, two or three of these characters
TypedTexts ==
    {<<a>> : a \in TypedChars}
        \cup {<<a, b>> : a \in TypedChars, b \in TypedChars}
        \cup {<<a, b, c>> : a \in TypedChars, b \in TypedChars, c \in TypedChars}

\* the alphabet position of a letter of either case, counted from 0; -1 for
\* any other character
LetterRow(c) ==
    IF index(ascii_uppercase, c) >= 0 THEN index(ascii_uppercase, c)
    ELSE index(ascii_lowercase, c)

\* the shot <<row, col>> a line stands for: a letter and a digit 1..9, or a
\* letter and "10"; <<>> for every other line
IntendedShot(text) ==
    IF Len(text) = 2 /\ LetterRow(text[1]) >= 0 /\ index(digits, text[2]) >= 1
    THEN <<LetterRow(text[1]), index(digits, text[2]) - 1>>
    ELSE IF Len(text) = 3 /\ LetterRow(text[1]) >= 0 /\ text[2] = "1" /\ text[3] = "0"
         THEN <<LetterRow(text[1]), 9>>
         ELSE <<>>

\* C13: when the human is to shoot, a letter followed by a digit 1..9 or by
\* "10" makes Human.shoot call hit with row = alphabet position of the letter
\* and column index = the number minus one; every other line is rejected (a
\* retry) without a shot on the board.
C13_HumanInputForms ==
    (pc = "shoot" /\ turn = "human") =>
        \A text \in TypedTexts :
            LET parsed == parse_shot(text)
                r      == hit(ships["ai"], parsed.row, parsed.col)
            IN  IF IntendedShot(text) # <<>>
                THEN ~parsed.error /\ <<parsed.row, parsed.col>> = IntendedShot(text)
                ELSE parsed.error \/ (r.outcome = "IndexBoardError" /\ r.fleet = ships["ai"])

\* the largest element of a non-empty set of integers
Max(S) == CHOOSE v \in S : \A w \in S : w <= v

\* the closed intervals [a1, a2] and [b1, b2] have a common point
Meet(a1, a2, b1, b2) == \E v \in (-2)..(Size + 5) : a1 <= v /\ v <= a2 /\ b1 <= v /\ v <= b2

\* C14: for any two ships, finish = start + (length, 1) for a horizontal and
\* start + (1, length) for a vertical ship, one beyond the last cell on both
\* axes; is_out_board(size) is true iff one of start x, start y, finish x,
\* finish y is outside [0, size); is_collide is true iff the closed intervals
\* [start, finish] of the two ships meet on both axes, is symmetric, and is
\* true whenever the ships share a grid cell; a 4-long horizontal ship at
\* (0, 0) has finish (4, 1), is not out of a size-10 board and collides with a
\* 2-long horizontal ship at (2, 0).
C14_ShipGeometry ==
    pc = "ships" =>
        LET a  == ships["human"][1]
            b  == ships["human"][2]
            fa == get_finish_coords(a)
            fb == get_finish_coords(b)
        IN  /\ fa = IF a.tp = 1 THEN <<a.x + a.length, a.y + 1>>
                                 ELSE <<a.x + 1, a.y + a.length>>
            /\ fa[1] = Max({c[1] : c \in Occupied(a)}) + 1
            /\ fa[2] = Max({c[2] : c \in Occupied(a)}) + 1
            /\ \A size \in 0..(Size + 2) :
                   is_out_board(a, size)
                       <=> (\E v \in {a.x, a.y, fa[1], fa[2]} : v < 0 \/ v >= size)
            /\ is_collide(a, b)
                   <=> (Meet(a.x, fa[1], b.x, fb[1]) /\ Meet(a.y, fa[2], b.y, fb[2]))
            /\ is_collide(a, b) = is_collide(b, a)
            /\ Occupied(a) \cap Occupied(b) # {} => is_collide(a, b)
            /\ outcome = "is_collide" => (ret = "True") = is_collide(a, b)
            /\ ( /\ a.length = 4 /\ a.tp = 1 /\ get_start_coords(a) = <<0, 0>>
                 /\ b.length = 2 /\ b.tp = 1 /\ get_start_coords(b) = <<2, 0>> )
                   => fa = <<4, 1>> /\ ~is_out_board(a, 10) /\ is_collide(a, b)

\* is_collide has answered True for the 4-long horizontal ship at (0, 0) and
\* the 2-long horizontal ship at (2, 0)
C14_Witness ==
    /\ pc = "ships" /\ outcome = "is_collide" /\ ret = "True"
    /\ ships["human"][1].length = 4 /\ ships["human"][1].tp = 1
    /\ get_start_coords(ships["human"][1]) = <<0, 0>>
    /\ ships["human"][2].length = 2 /\ ships["human"][2].tp = 1
    /\ get_start_coords(ships["human"][2]) = <<2, 0>>

\* C15: AI.shoot always resolves a shot. Whenever the AI is to shoot, some
\* coordinate of the human's board can be hit without ShootError and none of
\* the pairs randint(0, 9) can give raises IndexBoardError; AI.shoot never
\* lets an exception out; and with fair draws the retries on ShootError stop:
\* the shot is resolved and control is back at the head of the loop.
C15_AIShootResolves ==
    /\ []((pc = "shoot" /\ turn = "ai") =>
             /\ \E y \in InRange, x \in InRange :
                    hit(ships["human"], y, x).outcome # "ShootError"
             /\ \A y \in 0..9, x \in 0..9 :
                    hit(ships["human"], y, x).outcome # "IndexBoardError")
    /\ [](pc # "raised")
    /\ ((pc = "shoot" /\ turn = "ai" /\ \A p \in Players : nmoves[p] < MaxMoves)
            ~> (pc = "loop"))

\* the AI drew a struck cell, retried, and then resolved the shot by wounding
\* ship 4 of the human's board
C15_Witness ==
    /\ pc = "loop" /\ retried = FALSE /\ ret = "None" /\ outcome = "wounded"
    /\ Cardinality({k \in 1..2 : ships["human"][4].cells[k]}) = 1

\* C16: in every pass of the loop the player who shot keeps the turn exactly
\* when the shot that shoot() resolved was a hit and loses it exactly when it
\* was a miss, and what shoot() returns is the result of that hit() call, also
\* when shoot() had to retry first.
C16_TurnFollowsShot ==
    [][(pc = "shoot" /\ pc' = "loop") =>
          /\ (outcome' \in {"wounded", "sunk"}) <=> (turn' = turn)
          /\ (outcome' = "miss") <=> (turn' # turn)
          /\ ret' = IF outcome' = "miss" THEN "False" ELSE "True"]_vars

\* C17: a move_ships() call changes nothing but start coordinates: every
\* cell's state, in its place along the ship, every movement flag, every
\* ship's length and orientation, and the alive/sunk status of every ship and
\* of the board are after the call what they were before it.
C17_MoveShipsFrame ==
    [][nmoves' # nmoves =>
          \A p \in Players :
              /\ Len(ships'[p]) = Len(ships[p])
              /\ board_bool(ships'[p]) = board_bool(ships[p])
              /\ \A i \in 1..Len(ships[p]) :
                     /\ ships'[p][i].cells = ships[p][i].cells
                     /\ ships'[p][i].is_move = ships[p][i].is_move
                     /\ ships'[p][i].length = ships[p][i].length
                     /\ ships'[p][i].tp = ships[p][i].tp
                     /\ ship_bool(ships'[p][i]) = ship_bool(ships[p][i])]_vars

\* move_ships() has run on a board with a wounded ship 1, a sunk ship 4 and
\* an undamaged ship 2, which has moved
C17_Witness ==
    /\ pc = "ready" /\ outcome = "none" /\ nmoves["human"] >= 1
    /\ ships["human"][1].cells = <<FALSE, TRUE, TRUE, TRUE>>
    /\ ships["human"][4].cells = <<FALSE, FALSE>>
    /\ ships["human"][2].x = 0

\* the distance between two integers
Dist(a, b) == IF a >= b THEN a - b ELSE b - a

\* C18: in every reachable state, during and after create() and after any
\* hit() and move_ships() calls, no two distinct ships of a board touch by an
\* edge or by a corner: any cell of one and any cell of the other are more
\* than one apart on some axis.
C18_Spacing ==
    \A p \in Players : \A i \in 1..Len(ships[p]), j \in 1..Len(ships[p]) :
        i # j =>
            \A a \in Occupied(ships[p][i]), b \in Occupied(ships[p][j]) :
                Dist(a[1], b[1]) > 1 \/ Dist(a[2], b[2]) > 1

\* after a hit and a move_ships() call ships 6 and 7 lie in one row with a
\* single free cell between them
C18_Witness ==
    /\ pc = "ready" /\ nmoves["human"] >= 1 /\ outcome \in {"wounded", "sunk"}
    /\ Occupied(ships["human"][6]) = {<<0, 5>>, <<1, 5>>}
    /\ Occupied(ships["human"][7]) = {<<3, 5>>}

\* C19: a hit() call that fails with ShootError leaves the whole board as it
\* was (cells, movement flags, positions), and the same call repeated fails
\* with ShootError again.
C19_ShootErrorNoEffect ==
    /\ [](\A p \in Players : \A y \in InRange, x \in InRange :
             LET r == hit(ships[p], y, x) IN
             r.outcome = "ShootError" =>
                 /\ r.fleet = ships[p]
                 /\ hit(r.fleet, y, x).outcome = "ShootError")
    /\ [][outcome' = "ShootError" => ships' = ships]_vars

\* the first cell of the vertical ship 4 was struck, and a second shot at it
\* has failed with ShootError
C19_Witness ==
    /\ pc = "ready" /\ outcome = "ShootError" /\ nmoves["human"] = 0
    /\ ships["human"][4].tp = 2 /\ ships["human"][4].cells = <<FALSE, TRUE>>
    /\ Struck(ships["human"]) = 1

\* C20: in every reachable state the finish coordinates of every ship are
\* strictly below size on both axes, no ship cell lies in the last row or the
\* last column (index size - 1), and every hit() on that row or column with
\* the other coordinate in range is a miss; after placement and after
\* move_ships() calls alike.
C20_LastRowColumnEmpty ==
    \A p \in Players :
        /\ \A i \in 1..Len(ships[p]) :
               /\ get_finish_coords(ships[p][i])[1] < Size
               /\ get_finish_coords(ships[p][i])[2] < Size
               /\ \A c \in Occupied(ships[p][i]) : c[1] < Size - 1 /\ c[2] < Size - 1
        /\ \A v \in InRange :
               /\ hit(ships[p], Size - 1, v) =
                      [fleet |-> ships[p], outcome |-> "miss", ret |-> "False"]
               /\ hit(ships[p], v, Size - 1) =
                      [fleet |-> ships[p], outcome |-> "miss", ret |-> "False"]

\* a shot has missed after move_ships() took ship 4 to the last position the
\* board allows, its finish at size - 1
C20_Witness ==
    /\ pc = "ready" /\ outcome = "miss" /\ ret = "False" /\ nmoves["human"] >= 1
    /\ get_finish_coords(ships["human"][4])[1] = Size - 1
    /\ ships["human"][4].x = 7

==========================================================================
